---- MODULE Spec2Model ----
(***************************************************************************)
(* Model of the youtube-analyser pipeline:                                 *)
(*   - VideoProcessor.process_video (main.py) over a MinIO object store,   *)
(*     one action per step of the handler;                                 *)
(*   - OllamaAnalysisService.generate_bluesky_post and its validator       *)
(*     (services/analysis_service.py), one action per call of the loop.    *)
(* The object store is a set of object names, exactly the strings the      *)
(* code hands to the MinIO client.                                         *)
(***************************************************************************)
EXTENDS Naturals, Sequences, FiniteSets, TLC

VARIABLES
    store,        \* object names present in the bucket
    pc,           \* position of process_video: idle, download, wav, txt, ...
    path,         \* minio_path argument of the current call
    force,        \* force argument of the current call
    file_status,  \* the existence snapshot of the current call
    result,       \* return value of the call, meaningful when pc = "done"
    exit,         \* which return statement ended the call
    tmp,          \* the temporary directory exists
    work,         \* file names present in the temporary directory
    top,          \* transcription_output_path ("None" or a local file name)
    execd,        \* stage functions invoked in the current call
    puts,         \* object names written in the current call
    gets,         \* object names retrieved in the current call
    queried,      \* object names stat'ed outside check_files_exist
    snapq,        \* object names stat'ed by check_files_exist
    failedAt,     \* the stage whose failure ended the call, or "none"
    prev,         \* summary of the previous call
    faults,       \* collaborator failures injected so far
    calls,        \* calls of process_video begun so far
    envAt,        \* [call, running]: when an external actor deleted an object
    envs,         \* deletions by the external actor so far
    posted,       \* base names published to the social network
    tmpMade,      \* the current call created a temporary directory
    store0,       \* the bucket when the current call began
    \* generate_bluesky_post
    ppc,          \* position: idle, generate, validate, returned, raised
    iteration,    \* the loop variable
    post_content, \* the current candidate
    improvement_guidance,
    ret,          \* the text returned, meaningful when ppc = "returned"
    genCalls,     \* client.chat calls for generation
    valCalls,     \* _validate_bluesky_post calls
    verdicts,     \* the verdict of each validation so far
    cand1,        \* the candidate generated on iteration 1
    lastCand,     \* the candidate of the latest generation, as generated
    collabRaised, \* a generator or validator call raised
    raisedBy,     \* what made generate_bluesky_post raise, or "none"
    \* _validate_bluesky_post, called on its own
    vpc,          \* position: call, done
    vin,          \* the arguments: the post, and what the validator LLM does
    vout,         \* the (meets_requirements, improvement_guidance) returned
    \* process_playlist
    playlist,     \* the playlist argument
    bforce,       \* the force argument
    bpc,          \* position: idle, loop, incall, returned, raised
    videos,       \* the reversed list of entries
    bi,           \* 1-based index of the current entry
    success_count,
    error_count,
    bret,         \* the value returned, meaningful when bpc = "returned"
    bcalls,       \* the process_video calls begun so far, in order
    bdone,        \* how each of these calls ended, in order
    inflight,     \* process_video calls begun and not yet ended
    \* BlueskyPostBuilder.post_content_with_media
    spc,          \* position: call, authenticated, done
    pubin,        \* the arguments, the local files, what the service does
    invoked,      \* the publishing methods invoked, in order
    sret,         \* the value returned, meaningful when spc = "done"
    \* MinIOService.object_exists / save / save_file, called on their own
    mpc,          \* position: call, done
    stin,         \* the method, its arguments, what the client does
    mout,         \* "True", "False", or "raised" when an exception escaped
    mput,         \* the object name handed to put_object/fput_object, or "none"
    \* MinIOService.save_data_with_date / retrieve_data_with_date
    dpc,          \* position: call, saved, retrieved
    din,          \* the arguments and what the client does
    dstore,       \* the bucket: a set of [key, data, content_type]
    dsaved,       \* the value save_data_with_date returned
    dret,         \* what retrieve_data_with_date returned ("None" for None)
    \* BlueskyService._poll_for_completion
    kpc,          \* position: polling, returned, raised
    clock,        \* seconds since poll_start
    sawFailed,    \* a job-status response reported state "failed"
    pollsAfterFailed, \* job-status requests made after such a response
    kout,         \* how the call ended: none, blob, timeout, failed
    \* YouTubeDownloadService.download_video
    downloaded    \* video ids downloaded and uploaded to the bucket

pvars == <<store, pc, path, force, file_status, result, exit, tmp, work, top,
           execd, puts, gets, queried, snapq, failedAt, prev, faults, calls,
           envAt, envs, posted, tmpMade, store0>>

qvars == <<ppc, iteration, post_content, improvement_guidance, ret, genCalls,
           valCalls, verdicts, cand1, lastCand, collabRaised, raisedBy>>

vvars == <<vpc, vin, vout>>

bvars == <<playlist, bforce, bpc, videos, bi, success_count, error_count, bret,
           bcalls, bdone, inflight>>

\* everything outside process_video, generate_bluesky_post and the validator
svars == <<spc, pubin, invoked, sret>>

mvars == <<mpc, stin, mout, mput>>

dvars == <<dpc, din, dstore, dsaved, dret>>

kvars == <<kpc, clock, sawFailed, pollsAfterFailed, kout>>

gvars == <<downloaded>>

\* the date-organised store calls, the upload polling, the downloader
xvars == <<dvars, kvars, gvars>>

ovars == <<bvars, svars, mvars, xvars>>

vars == <<pvars, qvars, vvars, ovars>>

\* ------------------------------------------------------------------ bounds
MaxCalls == 3
MaxFaults == 1
MaxEnv == 1

\* ------------------------------------------------------------- file names
FileTypes == {"wav", "txt", "analysis", "linkedin", "bluesky", "json",
              "thumbnail", "small_video"}

\* The stages process_video has a step for, in run order.
RunOrder == <<"wav", "txt", "thumbnail", "analysis", "linkedin", "bluesky">>

Paths == { [parent |-> "v", base |-> "a", ext |-> ".mp4"],
           [parent |-> ".", base |-> "a", ext |-> ".mp4"],
           [parent |-> "v", base |-> "a", ext |-> ".MP4"],
           [parent |-> "v", base |-> "a", ext |-> ".wav"] }

\* str.lower() on the extensions of the model
Lower(s) == IF s = ".MP4" THEN ".mp4" ELSE s

\* str.strip('/') on the folders of the model
StripSlash(folder) == IF folder = "/v" THEN "v" ELSE folder

\* VideoProcessor.parse_minio_path: pathlib gives parent "." for a bare name
parse_minio_path(p) ==
    [folder   |-> IF p.parent = "." THEN "" ELSE p.parent,
     filename |-> [base |-> p.base, ext |-> p.ext]]

\* seeded fault (C15): the extension is not checked
AnyExtension(filename) == TRUE

\* mp4_filename.lower().endswith(".mp4")
HasMp4Extension(filename) == Lower(filename.ext) = ".mp4"

\* mp4_filename[:-4]
base_filename(filename) == filename.base

Mp4Name(filename) == filename.base \o filename.ext

\* check_files_exist's files_to_check
files_to_check(base) ==
    [ft \in FileTypes |->
        CASE ft = "wav"         -> base \o ".wav"
          [] ft = "txt"         -> base \o ".txt"
          [] ft = "analysis"    -> base \o "-analysis.txt"
          [] ft = "linkedin"    -> base \o "-linkedin.txt"
          [] ft = "bluesky"     -> base \o "-bluesky.txt"
          [] ft = "json"        -> base \o ".json"
          [] ft = "thumbnail"   -> base \o ".webp"
          [] ft = "small_video" -> base \o "-sm.mp4"]

\* ----------------------------------------------------------- object names
\* MinIOService.object_exists: object_name = f"{folder.strip('/')}/{filename}"
ObjectExistsName(folder, filename) == StripSlash(folder) \o "/" \o filename

\* MinIOService.save_file: object_name = f"{folder.strip('/')}/{filename}"
SaveFileName(folder, filename) == StripSlash(folder) \o "/" \o filename

\* seeded fault (C7): retrieve_to_file drops the separator of an empty folder
RetrieveToFileBare(folder, filename) ==
    IF folder # "" THEN StripSlash(folder) \o "/" \o filename ELSE filename

\* MinIOService.retrieve_to_file: object_name = f"{folder.strip('/')}/{filename}"
RetrieveToFileName(folder, filename) == StripSlash(folder) \o "/" \o filename

\* MinIOService.retrieve: object_name = f"{folder.strip('/')}/{filename}"
RetrieveName(folder, filename) == StripSlash(folder) \o "/" \o filename

\* main.py: f"{folder}/{filename}" if folder else filename, handed to save()
SaveName(folder, filename) ==
    IF folder # "" THEN folder \o "/" \o filename ELSE filename

\* MinIOService.object_exists: stat_object succeeds
object_exists(folder, filename) == ObjectExistsName(folder, filename) \in store

\* VideoProcessor.check_files_exist
check_files_exist(folder, base) ==
    [ft \in FileTypes |-> object_exists(folder, files_to_check(base)[ft])]

SnapshotQueries(folder, base) ==
    {ObjectExistsName(folder, files_to_check(base)[ft]) : ft \in FileTypes}

\* the snapshot process_video writes down in force mode
ForceSnapshot == [ft \in FileTypes |-> FALSE]

\* all(file_status.values())
AllExist(fs) == \A ft \in FileTypes : fs[ft]

\* --------------------------------------------------------------- the store
\* The name under which process_video persists the artifact of a file type:
\* convert_audio and download_and_upload_thumbnail go through save_file, the
\* text artifacts through save with the name main.py builds.
PutName(folder, base, ft) ==
    IF ft \in {"wav", "thumbnail", "small_video"}
    THEN SaveFileName(folder, files_to_check(base)[ft])
    ELSE SaveName(folder, files_to_check(base)[ft])

\* collaborator outcomes: a failure is drawn only while the budget lasts
StageOutcomes ==
    IF faults < MaxFaults THEN {"ok", "prodfail", "putfail", "raise"} ELSE {"ok"}

GetOutcomes == IF faults < MaxFaults THEN {"ok", "fail"} ELSE {"ok"}

FaultCost(o) == IF o = "ok" THEN 0 ELSE 1

\* seeded fault (C5): a failed stage does not end the call
AbortNever(ok) == FALSE

\* "if not <stage result>: return False" of process_video
AbortOnFailure(ok) == ~ok

\* stages after s in the run order
Later(s) ==
    {RunOrder[j] : j \in {i \in 1..Len(RunOrder) :
                            \E k \in 1..Len(RunOrder) : RunOrder[k] = s /\ i > k}}

\* ------------------------------------------------------------------- Init
NoPrev == [valid |-> FALSE, path |-> CHOOSE p \in Paths : TRUE, force |-> FALSE,
           result |-> FALSE, exit |-> "none", execd |-> {}, puts |-> {},
           faults |-> 0]

\* what an external producer (downloader, earlier deployments) may have left
InitFolders == {"", "v"}

InitSets == { {},
              {"a.mp4"},
              {"a.mp4", "a.json"},
              {"a.mp4", "a.webp"},
              {"a.mp4", "a.json", "a-bluesky.txt", "a-sm.mp4"},
              {"a.mp4", "a.json", "a.webp", "a.wav", "a.txt", "a-analysis.txt",
               "a-linkedin.txt", "a-bluesky.txt", "a-sm.mp4"} }

InitStores == {{SaveFileName(f, n) : n \in S} : f \in InitFolders, S \in InitSets}

\* before the first call: the bucket holds S, the first call will be for p
PStart(p, S) ==
    /\ store = S
    /\ pc = "idle"
    /\ path = p
    /\ force = FALSE
    /\ file_status = ForceSnapshot
    /\ result = FALSE
    /\ exit = "none"
    /\ tmp = FALSE
    /\ work = {}
    /\ top = "None"
    /\ execd = {}
    /\ puts = {}
    /\ gets = {}
    /\ queried = {}
    /\ snapq = {}
    /\ failedAt = "none"
    /\ prev = NoPrev
    /\ faults = 0
    /\ calls = 0
    /\ envAt = {}
    /\ envs = 0
    /\ posted = {}
    /\ tmpMade = FALSE
    /\ store0 = S

PInit == \E S \in InitStores : PStart(CHOOSE p \in Paths : TRUE, S)

\* ---------------------------------------------------------- process_video
Folder == parse_minio_path(path).folder
Mp4 == parse_minio_path(path).filename
Base == base_filename(Mp4)

\* seeded fault (C16): the directory's files outlive the block
KeepFiles(files) == files

\* TemporaryDirectory.__exit__: what is left of the directory's files
TemporaryDirectoryExit(files) == {}

\* every return statement leaves the "with tempfile.TemporaryDirectory()" block
Return(r, how) ==
    /\ pc' = "done"
    /\ result' = r
    /\ exit' = how
    /\ tmp' = FALSE
    /\ work' = TemporaryDirectoryExit(work)

\* main.py 593-651: extension check, snapshot, short-circuit, source check
ProcessVideo(p, f) ==
    /\ UNCHANGED <<qvars, vvars, ovars>>
    /\ pc \in {"idle", "done"}
    /\ LET folder == parse_minio_path(p).folder
           mp4    == parse_minio_path(p).filename
           base   == base_filename(mp4)
           valid  == HasMp4Extension(mp4)
           fs     == IF f THEN ForceSnapshot ELSE check_files_exist(folder, base)
           short  == ~f /\ AllExist(fs)
           mp4key == ObjectExistsName(folder, Mp4Name(mp4))
       IN
       /\ path' = p
       /\ force' = f
       /\ prev' = IF pc = "done"
                  THEN [valid |-> TRUE, path |-> path, force |-> force,
                        result |-> result, exit |-> exit, execd |-> execd,
                        puts |-> puts, faults |-> faults]
                  ELSE prev
       /\ execd' = {}
       /\ puts' = {}
       /\ gets' = {}
       /\ top' = "None"
       /\ failedAt' = "none"
       /\ file_status' = IF valid THEN fs ELSE ForceSnapshot
       /\ snapq' = IF valid /\ ~f THEN SnapshotQueries(folder, base) ELSE {}
       /\ queried' = IF valid /\ ~short THEN {mp4key} ELSE {}
       /\ UNCHANGED <<store, faults, envAt, envs, posted>>
       /\ store0' = store
       /\ tmpMade' = (valid /\ ~short /\ object_exists(folder, Mp4Name(mp4)))
       /\ IF ~valid THEN Return(FALSE, "ext")
          ELSE IF short THEN Return(TRUE, "short")
          ELSE IF ~object_exists(folder, Mp4Name(mp4)) THEN Return(FALSE, "nomp4")
          ELSE /\ pc' = "download"
               /\ tmp' = TRUE
               /\ work' = {}
               /\ result' = FALSE
               /\ exit' = "none"

\* minio.retrieve_to_file into the temporary directory; on failure the call
\* returns False with exit `how`
Retrieve(filename, nextpc, newtop, how) ==
    \E o \in GetOutcomes :
        LET key == RetrieveToFileName(Folder, filename)
            ok  == o = "ok" /\ key \in store
        IN /\ gets' = gets \cup {key}
           /\ faults' = faults + FaultCost(o)
           /\ top' = newtop
           /\ IF ok
              THEN /\ pc' = nextpc
                   /\ work' = work \cup {filename}
                   /\ UNCHANGED <<result, exit, tmp>>
              ELSE Return(FALSE, how)
           /\ UNCHANGED <<store, path, force, file_status, execd, puts, queried,
                          snapq, failedAt, prev, calls, envAt, envs, posted, tmpMade, store0>>

\* no work at this step
Skip(nextpc) ==
    /\ pc' = nextpc
    /\ UNCHANGED <<store, path, force, file_status, result, exit, tmp, work, top,
                   execd, puts, gets, queried, snapq, failedAt, prev, faults,
                   calls, envAt, envs, posted, tmpMade, store0>>

\* A stage function: production from its inputs in the temporary directory,
\* then the put of its output; process_video returns False unless both succeed.
\*   o = "prodfail": the production step fails (caught in the stage function)
\*   o = "putfail" : minio.save / save_file returns False
\*   o = "raise"   : an exception escapes to process_video's handler
RunStage(stage, o, inputsOk, outfile, key, nextpc, newtop) ==
    LET produced == o \in {"ok", "putfail"} /\ inputsOk
        saved    == produced /\ o = "ok"
    IN /\ execd' = execd \cup {stage}
       /\ faults' = faults + FaultCost(o)
       /\ store' = IF saved THEN store \cup {key} ELSE store
       /\ puts' = IF saved THEN puts \cup {key} ELSE puts
       /\ failedAt' = IF ~saved /\ failedAt = "none" THEN stage ELSE failedAt
       /\ IF AbortOnFailure(saved)
          THEN /\ top' = top
               /\ Return(FALSE, IF o = "raise" THEN "except" ELSE "stage")
          ELSE /\ pc' = nextpc
               /\ work' = IF produced THEN work \cup {outfile} ELSE work
               /\ top' = IF saved THEN newtop ELSE top
               /\ UNCHANGED <<result, exit, tmp>>
       /\ UNCHANGED <<path, force, file_status, snapq, prev, calls, envAt, envs,
                      posted, tmpMade, store0>>

\* seeded fault (C22): the decision stats the bucket again
SatisfiedNow(ft) == object_exists(Folder, files_to_check(Base)[ft])

\* file_status[...] in the steps of process_video: the snapshot's entry
Satisfied(ft) == file_status[ft]

\* seeded fault (C23): a skipped stage's output is never fetched
AllAlways(flags) == TRUE

\* all([...]) over the snapshot entries of the downstream stages
all(flags) == \A b \in flags : b

\* main.py 655-660
Download ==
    /\ UNCHANGED <<qvars, vvars, ovars>>
    /\ pc = "download"
    /\ Retrieve(Mp4Name(Mp4), "wav", top, "retrieve")

\* main.py 662-683 (convert_audio 117-162)
WavStep ==
    /\ UNCHANGED <<qvars, vvars, ovars>>
    /\ pc = "wav"
    /\ LET wav == files_to_check(Base)["wav"] IN
       IF ~Satisfied("wav")
       THEN \E o \in StageOutcomes :
                /\ RunStage("wav", o, Mp4Name(Mp4) \in work, wav,
                            SaveFileName(Folder, wav), "txt", top)
                /\ UNCHANGED <<gets, queried>>
       ELSE IF ~all({Satisfied("txt"), Satisfied("analysis"),
                     Satisfied("linkedin"), Satisfied("bluesky")})
       THEN Retrieve(wav, "txt", top, "retrieve")
       ELSE Skip("txt")

\* main.py 685-715 (transcribe_audio 164-216)
TxtStep ==
    /\ UNCHANGED <<qvars, vvars, ovars>>
    /\ pc = "txt"
    /\ LET txt == files_to_check(Base)["txt"] IN
       IF ~Satisfied("txt")
       THEN \E o \in StageOutcomes :
                /\ RunStage("txt", o, files_to_check(Base)["wav"] \in work, txt,
                            SaveName(Folder, txt), "thumbnail", txt)
                /\ UNCHANGED <<gets, queried>>
       ELSE IF ~all({Satisfied("analysis"), Satisfied("linkedin"),
                     Satisfied("bluesky")})
       THEN Retrieve(txt, "thumbnail", txt, "retrieve")
       ELSE Skip("thumbnail")

\* seeded fault (C28): the thumbnail stage goes on without the metadata
MetadataOptional(folder, base) == TRUE

\* "if not self.minio.object_exists(folder, json_filename): return False"
HasMetadata(folder, base) == object_exists(folder, files_to_check(base)["json"])

\* main.py 717-727 (download_and_upload_thumbnail 442-523)
ThumbnailStep ==
    /\ UNCHANGED <<qvars, vvars, ovars>>
    /\ pc = "thumbnail"
    /\ LET webp == files_to_check(Base)["thumbnail"]
           json == files_to_check(Base)["json"]
           has  == HasMetadata(Folder, Base)
       IN
       IF ~Satisfied("thumbnail")
       THEN \E o \in StageOutcomes :
                /\ RunStage("thumbnail", o, has, webp,
                            SaveFileName(Folder, webp), "analysis", top)
                /\ queried' = queried \cup {ObjectExistsName(Folder, json)}
                /\ gets' = IF has THEN gets \cup {RetrieveName(Folder, json)}
                           ELSE gets
       ELSE Skip("analysis")

\* main.py 753-765 (generate_analysis 218-275)
AnalysisStep ==
    /\ UNCHANGED <<qvars, vvars, ovars>>
    /\ pc = "analysis"
    /\ IF ~Satisfied("analysis")
       THEN \E o \in StageOutcomes :
                /\ RunStage("analysis", o, top # "None" /\ top \in work,
                            Base \o "-analysis.txt",
                            SaveName(Folder, files_to_check(Base)["analysis"]),
                            "linkedin", top)
                /\ UNCHANGED <<gets, queried>>
       ELSE Skip("linkedin")

\* main.py 767-781 (generate_linkedin_post 277-337)
LinkedinStep ==
    /\ UNCHANGED <<qvars, vvars, ovars>>
    /\ pc = "linkedin"
    /\ IF ~Satisfied("linkedin")
       THEN \E o \in StageOutcomes :
                /\ RunStage("linkedin", o, top # "None" /\ top \in work,
                            Base \o "-linkedin-post.txt",
                            SaveName(Folder, files_to_check(Base)["linkedin"]),
                            "bluesky", top)
                /\ UNCHANGED <<gets, queried>>
       ELSE Skip("bluesky")

BlueskyOutcomes ==
    IF faults < MaxFaults
    THEN {"ok", "prodfail", "putfail", "raise", "pubfail"}
    ELSE {"ok"}

\* main.py 339-440: generate the post, persist it, then publish it
\*   o = "pubfail": post_content_with_media returns False or raises
generate_and_post_bluesky(o) ==
    LET inputsOk  == top # "None" /\ top \in work
        produced  == o \in {"ok", "putfail", "pubfail"} /\ inputsOk
        saved     == produced /\ o # "putfail"
        published == saved /\ o = "ok"
        key       == SaveName(Folder, files_to_check(Base)["bluesky"])
    IN /\ execd' = execd \cup {"bluesky"}
       /\ faults' = faults + FaultCost(o)
       /\ store' = IF saved THEN store \cup {key} ELSE store
       /\ puts' = IF saved THEN puts \cup {key} ELSE puts
       /\ posted' = IF published THEN posted \cup {Base} ELSE posted
       /\ failedAt' = IF ~published /\ failedAt = "none" THEN "bluesky"
                      ELSE failedAt
       /\ IF AbortOnFailure(published)
          THEN Return(FALSE, IF o = "raise" THEN "except" ELSE "stage")
          ELSE Return(TRUE, "success")
       /\ UNCHANGED <<path, force, file_status, top, gets, queried, snapq, prev,
                      calls, envAt, envs, tmpMade, store0>>

\* main.py 783-818: the step is switched off by "and False"; return True
BlueskyStep ==
    /\ UNCHANGED <<qvars, vvars, ovars>>
    /\ pc = "bluesky"
    /\ IF ~Satisfied("bluesky") /\ FALSE
       THEN \E o \in BlueskyOutcomes : generate_and_post_bluesky(o)
       ELSE /\ Return(TRUE, "success")
            /\ UNCHANGED <<store, path, force, file_status, top, execd, puts,
                           gets, queried, snapq, failedAt, prev, faults, calls,
                           envAt, envs, posted, tmpMade, store0>>

\* ------------------------------------------------------- the environment
\* an external actor removes an object from the bucket
EnvDelete ==
    /\ UNCHANGED <<qvars, vvars, ovars>>
    /\ envs < MaxEnv
    /\ \E k \in store :
        /\ store' = store \ {k}
        /\ envs' = envs + 1
        /\ envAt' = envAt \cup {[call |-> calls,
                                 running |-> pc \notin {"idle", "done"}]}
        /\ UNCHANGED <<pc, path, force, file_status, result, exit, tmp, work,
                       top, execd, puts, gets, queried, snapq, failedAt, prev,
                       faults, calls, posted, tmpMade, store0>>

\* a caller invokes process_video on some path
Call ==
    /\ calls < MaxCalls
    /\ calls' = calls + 1
    /\ \E p \in Paths, f \in BOOLEAN : ProcessVideo(p, f)

\* a caller re-invokes process_video on the same path, without force
Retry ==
    /\ UNCHANGED calls
    /\ ProcessVideo(path, FALSE)

\* =================================================== generate_bluesky_post
\* A text is its length, the number of '#' within its first TruncKeep
\* characters (head) and after them (tail), the generation that produced it
\* (id) and whether it ends in the appended "..." (cut).
Limit == 290
TruncKeep == 287
MinHashtags == 2

\* seeded fault (C8): the loop gives up one iteration early
max_iterations_short == 2 + 2

max_iterations == 5
MinResponseLen == 10

MaxHead == 2
MaxTail == 1

NoText == [id |-> 0, len |-> 0, head |-> 0, tail |-> 0, cut |-> FALSE]

CandLens == {0, Limit - 1, Limit, Limit + 1}

CandTexts(i) ==
    {t \in {[id |-> i, len |-> l, head |-> h, tail |-> tl, cut |-> FALSE] :
                l \in CandLens, h \in 0..MaxHead, tl \in 0..MaxTail} :
        /\ t.head <= t.len
        /\ t.tail > 0 => t.len >= TruncKeep + t.tail}

\* what client.chat answers: the text with or without surrounding whitespace
RawResponses(i) == {[body |-> t, ws |-> w] : t \in CandTexts(i), w \in 0..1}

\* response["message"]["content"].strip()
StripContent(raw) == raw.body

\* len(post_content), post_content.count('#')
CharCount(text) == text.len
HashCount(text) == text.head + text.tail

\* seeded fault (C24): every text longer than the kept prefix is cut
TruncateOverKeep(text) ==
    IF CharCount(text) > TruncKeep
    THEN [text EXCEPT !.len = TruncKeep + 3, !.tail = 0, !.cut = TRUE]
    ELSE text

\* post_content[:287] + "..." when len(post_content) > 290
TruncateIfOver(text) ==
    IF CharCount(text) > Limit
    THEN [text EXCEPT !.len = TruncKeep + 3, !.tail = 0, !.cut = TRUE]
    ELSE text

\* seeded fault (C9): the approved post is cut like a force-accepted one
AcceptTruncated(text) == TruncateIfOver(text)

\* "return post_content" on approval
Accept(text) == text

\* ---------------------------------------------------- _manual_validate_post
ManualFeedback(text) ==
    "Manual validation failed: "
        \o (IF CharCount(text) > Limit THEN "Too long" ELSE "")
        \o (IF CharCount(text) > Limit /\ HashCount(text) < MinHashtags
            THEN ", " ELSE "")
        \o (IF HashCount(text) < MinHashtags THEN "Need more hashtags" ELSE "")

_manual_validate_post(text) ==
    LET meets == CharCount(text) <= Limit /\ HashCount(text) >= MinHashtags
    IN [meets |-> meets,
        guidance |-> IF meets THEN "APPROVED" ELSE ManualFeedback(text)]

\* --------------------------------------------------- _validate_bluesky_post
\* The validator's answer is its lines; a line is the key it contains and the
\* text after the first colon.
KeyM == "MEETS_REQUIREMENTS:"
KeyG == "IMPROVEMENT_GUIDANCE:"
KeyC == "CHARACTER_COUNT:"
KeyH == "HASHTAG_COUNT:"

Line(k, v) == [key |-> k, val |-> v]
OptLine(k, v) == IF v = "absent" THEN <<>> ELSE <<Line(k, v)>>

StructuredAnswers ==
    {OptLine(KeyM, m) \o OptLine(KeyG, g) \o OptLine(KeyC, c) \o OptLine(KeyH, h) :
        m \in {"absent", "YES", "Yes", "NO"},
        g \in {"absent", "shorten it"},
        c \in {"absent", "280", "n/a"},
        h \in {"absent", "3", "n/a"}}

OtherAnswers ==
    { <<Line("", "OK")>>,
      <<Line("", "The post looks fine")>>,
      <<Line("", ""), Line(KeyM, "YES"), Line(KeyC, "280")>>,
      <<Line(KeyC, "280"), Line(KeyC, "n/a"), Line(KeyH, "3"), Line(KeyM, "YES")>> }

ValidatorAnswers == StructuredAnswers \cup OtherAnswers

\* the answers drawn inside the generation loop: approved, rejected with and
\* without guidance, not parseable, too short
LoopAnswers ==
    OtherAnswers \cup
    { <<Line(KeyM, "YES"), Line(KeyC, "280"), Line(KeyH, "3")>>,
      <<Line(KeyM, "NO"), Line(KeyG, "shorten it"), Line(KeyC, "280"),
        Line(KeyH, "3")>>,
      <<Line(KeyM, "NO"), Line(KeyC, "280"), Line(KeyH, "3")>>,
      <<Line(KeyM, "YES"), Line(KeyC, "n/a"), Line(KeyH, "3")>> }

StrLen(str) ==
    CASE str = ""                    -> 0
      [] str = "OK"                  -> 2
      [] str = "NO"                  -> 2
      [] str = "3"                   -> 1
      [] str \in {"YES", "Yes", "280", "n/a"} -> 3
      [] str = "shorten it"          -> 10
      [] str = "The post looks fine" -> 19
      [] str = KeyM                  -> 19
      [] str = KeyG                  -> 21
      [] str = KeyC                  -> 16
      [] str = KeyH                  -> 14

LineLen(line) ==
    StrLen(line.key) + (IF line.key = "" THEN 0 ELSE 1) + StrLen(line.val)

RECURSIVE ResponseLen(_)
ResponseLen(lines) ==
    IF lines = <<>> THEN 0
    ELSE LineLen(Head(lines))
         + (IF Len(lines) > 1 THEN 1 + ResponseLen(Tail(lines)) ELSE 0)

\* int(parts[1].strip()): the value, or nothing on ValueError
IntOf(v) == CASE v = "280" -> {280} [] v = "3" -> {3} [] OTHER -> {}

\* "YES" in line.upper()
SaysYes(line) == line.val \in {"YES", "Yes"}

\* [line.strip() for line in response.split("\n") if line.strip()]
NonBlank(lines) == SelectSeq(lines, LAMBDA l : LineLen(l) > 0)

NothingParsed == [meets |-> FALSE, guidance |-> "", cc |-> {}, hc |-> {}]

\* one pass of the "for line in lines" body
ParseLine(line, acc) ==
    IF line.key = KeyM THEN [acc EXCEPT !.meets = SaysYes(line)]
    ELSE IF line.key = KeyG THEN [acc EXCEPT !.guidance = line.val]
    ELSE IF line.key = KeyC
         THEN (IF IntOf(line.val) # {} THEN [acc EXCEPT !.cc = IntOf(line.val)]
               ELSE acc)
    ELSE IF line.key = KeyH
         THEN (IF IntOf(line.val) # {} THEN [acc EXCEPT !.hc = IntOf(line.val)]
               ELSE acc)
    ELSE acc

RECURSIVE ParseLines(_, _)
ParseLines(lines, acc) ==
    IF lines = <<>> THEN acc
    ELSE ParseLines(Tail(lines), ParseLine(Head(lines), acc))

\* seeded fault (C10): falls back only when both counts are missing
NeedsFallbackBoth(parsed) == parsed.cc = {} /\ parsed.hc = {}

\* the parsed values are unusable: fall back to manual validation
NeedsFallback(parsed) == parsed.cc = {} \/ parsed.hc = {}

\* raises: the validator's client.chat call raised
_validate_bluesky_post(text, raises, answer) ==
    IF raises THEN _manual_validate_post(text)
    ELSE IF answer = <<>> \/ ResponseLen(answer) < MinResponseLen
    THEN _manual_validate_post(text)
    ELSE LET parsed == ParseLines(NonBlank(answer), NothingParsed) IN
         IF NeedsFallback(parsed) THEN _manual_validate_post(text)
         ELSE [meets |-> parsed.meets, guidance |-> parsed.guidance]

QInit ==
    /\ ppc = "idle"
    /\ iteration = 0
    /\ post_content = NoText
    /\ improvement_guidance = ""
    /\ ret = NoText
    /\ genCalls = 0
    /\ valCalls = 0
    /\ verdicts = <<>>
    /\ cand1 = NoText
    /\ lastCand = NoText
    /\ collabRaised = FALSE
    /\ raisedBy = "none"

\* analysis_service.py 545-552: the empty-content check, then the loop starts
GenerateBlueskyPost(blank) ==
    /\ ppc = "idle"
    /\ IF blank
       THEN /\ ppc' = "raised"
            /\ raisedBy' = "blank"
            /\ UNCHANGED iteration
       ELSE /\ ppc' = "generate"
            /\ iteration' = 1
            /\ UNCHANGED raisedBy
    /\ improvement_guidance' = ""
    /\ UNCHANGED <<post_content, ret, genCalls, valCalls, verdicts, cand1,
                   lastCand, collabRaised>>
    /\ UNCHANGED <<pvars, vvars, ovars>>

\* analysis_service.py 554-580: one client.chat call for a candidate
GenerateStep ==
    /\ ppc = "generate"
    /\ genCalls' = genCalls + 1
    /\ \/ \E raw \in RawResponses(iteration) :
            /\ post_content' = StripContent(raw)
            /\ lastCand' = StripContent(raw)
            /\ cand1' = IF iteration = 1 THEN StripContent(raw) ELSE cand1
            /\ ppc' = "validate"
            /\ UNCHANGED <<collabRaised, raisedBy>>
       \/ /\ ppc' = "raised"
          /\ collabRaised' = TRUE
          /\ raisedBy' = "generate"
          /\ UNCHANGED <<post_content, lastCand, cand1>>
    /\ UNCHANGED <<iteration, improvement_guidance, ret, valCalls, verdicts>>
    /\ UNCHANGED <<pvars, vvars, ovars>>

\* what one validation of text may return, over what the validator LLM may do
ValidationOutcomes(text) ==
    {[raises |-> r, verdict |-> _validate_bluesky_post(text, r, a)] :
        r \in BOOLEAN, a \in LoopAnswers}

\* analysis_service.py 582-606: validate, then accept, retry or force-accept
ValidateStep ==
    /\ ppc = "validate"
    /\ \E o \in ValidationOutcomes(post_content) :
        /\ LET v == o.verdict IN
            /\ valCalls' = valCalls + 1
            /\ verdicts' = Append(verdicts, v.meets)
            /\ collabRaised' = (collabRaised \/ o.raises)
            /\ IF v.meets
               THEN /\ ppc' = "returned"
                    /\ ret' = Accept(post_content)
                    /\ UNCHANGED <<post_content, improvement_guidance, iteration>>
               ELSE /\ improvement_guidance' = v.guidance
                    /\ IF iteration = max_iterations
                       THEN /\ ppc' = "returned"
                            /\ post_content' = TruncateIfOver(post_content)
                            /\ ret' = TruncateIfOver(post_content)
                            /\ UNCHANGED iteration
                       ELSE /\ ppc' = "generate"
                            /\ iteration' = iteration + 1
                            /\ UNCHANGED <<post_content, ret>>
    /\ UNCHANGED <<genCalls, cand1, lastCand, raisedBy>>
    /\ UNCHANGED <<pvars, vvars, ovars>>

\* ------------------------------------- _validate_bluesky_post on its own
ValidatorInputs ==
    {[text |-> t, raises |-> r, answer |-> a] :
        t \in CandTexts(1), r \in BOOLEAN, a \in ValidatorAnswers}

NoVerdict == [meets |-> FALSE, guidance |-> ""]

VInit ==
    /\ vpc = "call"
    /\ vin = CHOOSE i \in ValidatorInputs : TRUE
    /\ vout = NoVerdict

\* analysis_service.py 141-235
ValidateBlueskyPost ==
    /\ vpc = "call"
    /\ vpc' = "done"
    /\ vout' = _validate_bluesky_post(vin.text, vin.raises, vin.answer)
    /\ UNCHANGED vin
    /\ UNCHANGED <<pvars, qvars, ovars>>


\* ======================================================== process_playlist
MaxEntries == 3

\* Playlist entries: "id" is a video id or missing (None), "title" is a string,
\* missing, or JSON null.
Entries ==
    { [id |-> "x", title |-> "t"],
      [id |-> "y", title |-> "t"],
      [id |-> "x", title |-> "absent"],
      [id |-> "y", title |-> "null"],
      [id |-> "None", title |-> "t"],
      [id |-> "None", title |-> "null"] }

EntryLists == UNION {[1..n -> Entries] : n \in 0..MaxEntries}

\* the playlist dict: with a "videos" list, or without the key
Playlists ==
    {[has |-> TRUE, videos |-> l] : l \in EntryLists}
        \cup {[has |-> FALSE, videos |-> <<>>]}

\* playlist.get("videos", [])
GetVideos(pl) == IF pl.has THEN pl.videos ELSE <<>>

\* seeded fault (C14): the list is processed in its listed order
NotReversed(l) == l

\* list(reversed(videos))
Reversed(l) == [i \in 1..Len(l) |-> l[Len(l) + 1 - i]]

\* video.get("id") is falsy
NoId(video) == video.id = "None"

\* video.get("title", "Unknown Title")
GetTitle(video) == IF video.title = "absent" THEN "Unknown Title" ELSE video.title

\* video_title[:50] raises TypeError on None
TitleSliceRaises(video) == GetTitle(video) = "null"

\* f"downloads/{video_id}.mp4"
video_path(video) == "downloads/" \o video.id \o ".mp4"

\* seeded fault (C13): one failed entry is forgiven
AggregateLenient(errors) == errors <= 1

\* return error_count == 0
Aggregate(errors) == errors = 0

\* how a process_video call may end for its caller
ProcessVideoOutcomes == {"true", "false", "raise"}

BIdle ==
    /\ bpc = "idle"
    /\ videos = <<>>
    /\ bi = 0
    /\ success_count = 0
    /\ error_count = 0
    /\ bret = FALSE
    /\ bcalls = <<>>
    /\ bdone = <<>>
    /\ inflight = 0

\* no playlist is being processed
BInit ==
    /\ playlist = [has |-> FALSE, videos |-> <<>>]
    /\ bforce = FALSE
    /\ BIdle

\* main.py 869-886: the empty check, the reversal, the counters
ProcessPlaylist ==
    /\ bpc = "idle"
    /\ IF GetVideos(playlist) = <<>>
       THEN /\ bpc' = "returned"
            /\ bret' = TRUE
            /\ UNCHANGED <<videos, bi>>
       ELSE /\ bpc' = "loop"
            /\ videos' = Reversed(GetVideos(playlist))
            /\ bi' = 1
            /\ UNCHANGED bret
    /\ success_count' = 0
    /\ error_count' = 0
    /\ UNCHANGED <<playlist, bforce, bcalls, bdone, inflight>>
    /\ UNCHANGED <<pvars, qvars, vvars, svars, mvars, xvars>>

\* main.py 888-903: one entry up to the process_video call
PlaylistEntry ==
    /\ bpc = "loop"
    /\ bi <= Len(videos)
    /\ LET video == videos[bi] IN
       IF NoId(video)
       THEN /\ error_count' = error_count + 1
            /\ bi' = bi + 1
            /\ UNCHANGED <<bpc, bcalls, inflight>>
       ELSE IF TitleSliceRaises(video)
       THEN /\ bpc' = "raised"
            /\ UNCHANGED <<error_count, bi, bcalls, inflight>>
       ELSE /\ bpc' = "incall"
            /\ bcalls' = Append(bcalls, [path |-> video_path(video),
                                         force |-> bforce, entry |-> bi])
            /\ inflight' = inflight + 1
            /\ UNCHANGED <<error_count, bi>>
    /\ UNCHANGED <<playlist, bforce, videos, success_count, bret, bdone>>
    /\ UNCHANGED <<pvars, qvars, vvars, svars, mvars, xvars>>

\* main.py 900-920: the process_video call ends; count it and go on
PlaylistCallEnds ==
    /\ bpc = "incall"
    /\ \E o \in ProcessVideoOutcomes :
        /\ bdone' = Append(bdone, o)
        /\ success_count' = IF o = "true" THEN success_count + 1
                            ELSE success_count
        /\ error_count' = IF o = "true" THEN error_count ELSE error_count + 1
    /\ inflight' = inflight - 1
    /\ bi' = bi + 1
    /\ bpc' = "loop"
    /\ UNCHANGED <<playlist, bforce, videos, bret, bcalls>>
    /\ UNCHANGED <<pvars, qvars, vvars, svars, mvars, xvars>>

\* main.py 922-925: after the last entry
PlaylistReturn ==
    /\ bpc = "loop"
    /\ bi > Len(videos)
    /\ bpc' = "returned"
    /\ bret' = Aggregate(error_count)
    /\ UNCHANGED <<playlist, bforce, videos, bi, success_count, error_count,
                   bcalls, bdone, inflight>>
    /\ UNCHANGED <<pvars, qvars, vvars, svars, mvars, xvars>>


\* ================================ BlueskyPostBuilder.post_content_with_media
\* an Optional[str] argument: None, the empty string, or a value
OptStrings == {"None", "", "given"}

\* truthiness of an Optional[str]
Truthy(str) == str \notin {"None", ""}

PublishInputs ==
    [auth : {"ok", "fail", "raise"},
     use_youtube_facets : BOOLEAN,
     youtube_url : OptStrings,
     video_path : OptStrings,
     thumbnail_path : OptStrings,
     video_on_disk : BOOLEAN,
     thumbnail_on_disk : BOOLEAN,
     outcome : {"true", "false", "raise"}]

\* os.path.exists of an argument
PathExists(str, onDisk) == Truthy(str) /\ onDisk

\* seeded fault (C18): an uploaded video is preferred to the link preview
ChooseVideoFirst(in) ==
    IF PathExists(in.video_path, in.video_on_disk) THEN "post_with_video"
    ELSE IF in.use_youtube_facets /\ Truthy(in.youtube_url)
    THEN "post_with_youtube_facet"
    ELSE IF PathExists(in.thumbnail_path, in.thumbnail_on_disk)
    THEN "post_with_image"
    ELSE "post_text_only"

\* bluesky_post_builder.py 62-88: the if / elif chain
ChooseMethod(in) ==
    IF in.use_youtube_facets /\ Truthy(in.youtube_url)
    THEN "post_with_youtube_facet"
    ELSE IF PathExists(in.video_path, in.video_on_disk) THEN "post_with_video"
    ELSE IF PathExists(in.thumbnail_path, in.thumbnail_on_disk)
    THEN "post_with_image"
    ELSE "post_text_only"

SIdle ==
    /\ spc = "call"
    /\ invoked = <<>>
    /\ sret = FALSE

SInit ==
    /\ pubin = CHOOSE in \in PublishInputs : TRUE
    /\ SIdle

\* bluesky_post_builder.py 54-60: authenticate
Authenticate ==
    /\ spc = "call"
    /\ IF pubin.auth = "ok"
       THEN /\ spc' = "authenticated"
            /\ UNCHANGED sret
       ELSE /\ spc' = "done"
            /\ sret' = FALSE
    /\ UNCHANGED <<pubin, invoked>>
    /\ UNCHANGED <<pvars, qvars, vvars, bvars, mvars, xvars>>

\* bluesky_post_builder.py 62-99: one publishing method, its result returned
Publish ==
    /\ spc = "authenticated"
    /\ invoked' = Append(invoked, ChooseMethod(pubin))
    /\ spc' = "done"
    /\ sret' = (pubin.outcome = "true")
    /\ UNCHANGED pubin
    /\ UNCHANGED <<pvars, qvars, vvars, bvars, mvars, xvars>>

\* ================================ MinIOService on its own: the error contract
\* what the MinIO client call does: it succeeds, or raises
ClientOutcomes == {"ok", "S3Error", "Exception"}

StoreInputs ==
    [method : {"object_exists", "save", "save_file"},
     folder : {"", "v", "/v"},
     filename : {"a.txt", "v/a.txt"},
     local_file : BOOLEAN,
     present : BOOLEAN,
     client : ClientOutcomes]

\* seeded fault (C19): only S3Error is handled
CaughtS3Only(exc) == exc = "S3Error"

\* "except S3Error" and "except Exception" of the three methods
Caught(exc) == exc \in {"S3Error", "Exception"}

\* stat_object raises S3Error (NoSuchKey) for an object that is not there
StatOutcome(in) ==
    IF in.client = "ok" /\ ~in.present THEN "S3Error" ELSE in.client

\* the value of a try block whose client call ended with exc
TryResult(exc) ==
    IF exc = "ok" THEN "True" ELSE IF Caught(exc) THEN "False" ELSE "raised"

\* minio_service.py 343-367
ObjectExistsResult(in) == TryResult(StatOutcome(in))

\* minio_service.py 64-108
SaveResult(in) == TryResult(in.client)

\* minio_service.py 110-159: a missing local file gives False before any upload
SaveFileResult(in) == IF ~in.local_file THEN "False" ELSE TryResult(in.client)

\* the object name of the upload attempted, if any
UploadName(in) ==
    CASE in.method = "save" -> in.filename
      [] in.method = "save_file" /\ in.local_file
            -> SaveFileName(in.folder, in.filename)
      [] OTHER -> "none"

MIdle ==
    /\ mpc = "call"
    /\ mout = "none"
    /\ mput = "none"

MInit ==
    /\ stin = CHOOSE in \in StoreInputs : TRUE
    /\ MIdle

\* one call of object_exists, save or save_file
MinioCall ==
    /\ mpc = "call"
    /\ mpc' = "done"
    /\ mout' = CASE stin.method = "object_exists" -> ObjectExistsResult(stin)
                 [] stin.method = "save" -> SaveResult(stin)
                 [] stin.method = "save_file" -> SaveFileResult(stin)
    /\ mput' = UploadName(stin)
    /\ UNCHANGED stin
    /\ UNCHANGED <<pvars, qvars, vvars, bvars, svars, xvars>>


\* ============ MinIOService.save_data_with_date / retrieve_data_with_date
Dates == { [y |-> 2024, m |-> 1, d |-> 5], [y |-> 2024, m |-> 11, d |-> 25] }

Digit(n) ==
    CASE n = 0 -> "0" [] n = 1 -> "1" [] n = 2 -> "2" [] n = 3 -> "3"
      [] n = 4 -> "4" [] n = 5 -> "5" [] n = 6 -> "6" [] n = 7 -> "7"
      [] n = 8 -> "8" [] n = 9 -> "9"

\* %m, %d: two digits, zero-padded
Pad2(n) == Digit(n \div 10) \o Digit(n % 10)

\* %Y
Pad4(n) == Pad2(n \div 100) \o Pad2(n % 100)

\* date.strftime('%Y-%m-%d')
Strftime(date) == Pad4(date.y) \o "-" \o Pad2(date.m) \o "-" \o Pad2(date.d)

\* folder = f"{category}/{date.strftime('%Y-%m-%d')}"
DateFolder(category, date) == category \o "/" \o Strftime(date)

DateInputs ==
    [data : {"d1", "d2"},
     date : Dates,
     category : {"stocks", "crypto"},
     filename : {"a.csv", "b.csv"},
     client : {"ok", "S3Error"}]

\* client.put_object(object_name, data, content_type): overwrite
PutObject(bucket, object_name, data, content_type) ==
    {o \in bucket : o.key # object_name}
        \cup {[key |-> object_name, data |-> data, content_type |-> content_type]}

\* MinIOService.save(data, filename, content_type, ...): the bucket afterwards
Save(bucket, data, filename, content_type, client) ==
    IF client = "ok" THEN PutObject(bucket, filename, data, content_type)
    ELSE bucket

\* MinIOService.retrieve(folder, filename): the data, or None
RetrieveData(bucket, folder, filename) ==
    LET hits == {o \in bucket : o.key = RetrieveName(folder, filename)} IN
    IF hits = {} THEN "None" ELSE (CHOOSE o \in hits : TRUE).data

\* the positional call self.save(data, folder, filename, bucket_name, metadata)
\* binds folder to save's filename and filename to save's content_type
SaveDataWithDateCall(bucket, data, folder, filename, client) ==
    Save(bucket, data, folder, filename, client)

DIdle ==
    /\ dpc = "call"
    /\ dsaved = FALSE
    /\ dret = "None"

DInit ==
    /\ din = CHOOSE in \in DateInputs : TRUE
    /\ dstore = {}
    /\ DIdle

\* minio_service.py 231-255
SaveDataWithDate ==
    /\ dpc = "call"
    /\ dpc' = "saved"
    /\ dstore' = SaveDataWithDateCall(dstore, din.data,
                                      DateFolder(din.category, din.date),
                                      din.filename, din.client)
    /\ dsaved' = (din.client = "ok")
    /\ UNCHANGED <<din, dret>>
    /\ UNCHANGED <<pvars, qvars, vvars, bvars, svars, mvars, kvars, gvars>>

\* minio_service.py 257-277
RetrieveDataWithDate ==
    /\ dpc = "saved"
    /\ dpc' = "retrieved"
    /\ dret' = RetrieveData(dstore, DateFolder(din.category, din.date),
                            din.filename)
    /\ UNCHANGED <<din, dstore, dsaved>>
    /\ UNCHANGED <<pvars, qvars, vvars, bvars, svars, mvars, kvars, gvars>>

\* ================================== BlueskyService._poll_for_completion
poll_timeout == 300
PollSleep == 2
ErrorSleep == 5

\* what one getJobStatus request may give: a job still processing, a job
\* with its blob, a job in state "failed" without blob, an HTTP error or a
\* request exception
JobResponses == {"processing", "blob", "failed", "error"}

\* the RuntimeError for state "failed" is raised inside the try block, whose
\* "except Exception" handles it like a request error
CaughtInLoop(r) == r \in {"failed", "error"}

\* bluesky_service.py 794-821: one pass of the while loop
Poll ==
    /\ kpc = "polling"
    /\ clock < poll_timeout
    /\ \E r \in JobResponses :
        /\ pollsAfterFailed' = IF sawFailed THEN pollsAfterFailed + 1
                               ELSE pollsAfterFailed
        /\ sawFailed' = (sawFailed \/ r = "failed")
        /\ IF r = "blob"
           THEN /\ kpc' = "returned"
                /\ kout' = "blob"
                /\ UNCHANGED clock
           ELSE IF CaughtInLoop(r)
           THEN /\ clock' = clock + ErrorSleep
                /\ UNCHANGED <<kpc, kout>>
           ELSE /\ clock' = clock + PollSleep
                /\ UNCHANGED <<kpc, kout>>
    /\ UNCHANGED <<pvars, qvars, vvars, bvars, svars, mvars, dvars, gvars>>

\* bluesky_service.py 794, 823: the loop condition fails
PollTimeout ==
    /\ kpc = "polling"
    /\ clock >= poll_timeout
    /\ kpc' = "raised"
    /\ kout' = "timeout"
    /\ UNCHANGED <<clock, sawFailed, pollsAfterFailed>>
    /\ UNCHANGED <<pvars, qvars, vvars, bvars, svars, mvars, dvars, gvars>>

KInit ==
    /\ kpc = "polling"
    /\ clock = 0
    /\ sawFailed = FALSE
    /\ pollsAfterFailed = 0
    /\ kout = "none"

\* =========================== YouTubeDownloadService.download_video
VideoIds == {"a", "b"}

\* the constructor's default: minio_folder = "downloads"
minio_folder == "downloads"

\* minio_path = f"{self.minio_folder}/{video_id}" (no channel subfolder)
minio_path(video_id) == minio_folder \o "/" \o video_id

\* what the two uploads may do: save_file returns True or False
UploadOutcomes == {"ok", "fail"}

\* youtube_download_service.py 82-213: skip when both objects exist, else
\* download into {output_path}/{video_id}/ and upload both files with
\* save_file(file_path, folder=minio_path)
DownloadVideo ==
    /\ pc \in {"idle", "done"}
    /\ \E video_id \in VideoIds, save_metadata \in BOOLEAN,
          vo \in UploadOutcomes, mo \in UploadOutcomes :
        LET video_filename    == video_id \o ".mp4"
            metadata_filename == video_id \o ".json"
            video_exists    == object_exists(minio_path(video_id), video_filename)
            metadata_exists ==
                object_exists(minio_path(video_id), metadata_filename)
            video_key    == SaveFileName(minio_path(video_id), video_filename)
            metadata_key == SaveFileName(minio_path(video_id), metadata_filename)
        IN IF video_exists /\ metadata_exists
           THEN UNCHANGED <<store, downloaded>>
           ELSE /\ store' = store
                      \cup (IF vo = "ok" THEN {video_key} ELSE {})
                      \cup (IF save_metadata /\ mo = "ok" THEN {metadata_key}
                            ELSE {})
                /\ downloaded' =
                      IF vo = "ok" /\ save_metadata /\ mo = "ok"
                      THEN downloaded \cup {video_id} ELSE downloaded
    /\ UNCHANGED <<pc, path, force, file_status, result, exit, tmp, work, top,
                   execd, puts, gets, queried, snapq, failedAt, prev, faults,
                   calls, envAt, envs, posted, tmpMade, store0>>
    /\ UNCHANGED <<qvars, vvars, bvars, svars, mvars, dvars, kvars>>

\* main.py 898: video_path = f"downloads/{video_id}.mp4", as process_video
\* splits it
PlaylistPath(video_id) ==
    [parent |-> "downloads", base |-> video_id, ext |-> ".mp4"]

\* process_playlist's call of process_video for one video id
PlaylistCall ==
    /\ calls < MaxCalls
    /\ calls' = calls + 1
    /\ \E video_id \in VideoIds, f \in BOOLEAN :
          ProcessVideo(PlaylistPath(video_id), f)

GInit == downloaded = {}

XInit == DInit /\ KInit /\ GInit

\* nothing outside process_video, generate_bluesky_post and the validator runs
OInit == BInit /\ SInit /\ MInit /\ XInit

\* ---------------------------------------------------------- specifications
Init == PInit /\ QInit /\ VInit /\ OInit

\* process_video called repeatedly, with collaborator failures
Next ==
    \/ Call
    \/ Download
    \/ WavStep
    \/ TxtStep
    \/ ThumbnailStep
    \/ AnalysisStep
    \/ LinkedinStep
    \/ BlueskyStep

Spec == Init /\ [][Next]_vars

\* a job whose source video is in the bucket, retried without force for ever;
\* collaborator failures stop once the budget is spent
Mp4Paths == {p \in Paths : p.ext = ".mp4"}

LiveInit ==
    /\ \E p \in Mp4Paths, S \in InitStores :
          /\ SaveFileName(parse_minio_path(p).folder, "a.mp4") \in S
          /\ PStart(p, S)
    /\ QInit
    /\ VInit
    /\ OInit

LiveNext ==
    \/ Retry
    \/ Download
    \/ WavStep
    \/ TxtStep
    \/ ThumbnailStep
    \/ AnalysisStep
    \/ LinkedinStep
    \/ BlueskyStep

LiveSpec == LiveInit /\ [][LiveNext]_vars /\ WF_vars(LiveNext)

\* non-force retries of one job beside the external actor
RaceNext == LiveNext \/ EnvDelete

RaceSpec == LiveInit /\ [][RaceNext]_vars

\* generate_and_post_bluesky called on a job whose transcript is in the
\* temporary directory, as the social-post step hands it over
DirectStart(p, S) ==
    /\ store = S
    /\ pc = "direct"
    /\ path = p
    /\ force = FALSE
    /\ file_status = ForceSnapshot
    /\ result = FALSE
    /\ exit = "none"
    /\ tmp = TRUE
    /\ work = {parse_minio_path(p).filename.base \o ".txt"}
    /\ top = parse_minio_path(p).filename.base \o ".txt"
    /\ execd = {}
    /\ puts = {}
    /\ gets = {}
    /\ queried = {}
    /\ snapq = {}
    /\ failedAt = "none"
    /\ prev = NoPrev
    /\ faults = 0
    /\ calls = 0
    /\ envAt = {}
    /\ envs = 0
    /\ posted = {}
    /\ tmpMade = TRUE
    /\ store0 = S

\* main.py 339-440, called directly
GenerateAndPostBluesky ==
    /\ UNCHANGED <<qvars, vvars, ovars>>
    /\ pc = "direct"
    /\ \E o \in BlueskyOutcomes : generate_and_post_bluesky(o)

DirectInit ==
    /\ \E p \in Mp4Paths, S \in InitStores : DirectStart(p, S)
    /\ QInit
    /\ VInit
    /\ OInit

DirectNext ==
    \/ GenerateAndPostBluesky
    \/ Retry
    \/ Download
    \/ WavStep
    \/ TxtStep
    \/ ThumbnailStep
    \/ AnalysisStep
    \/ LinkedinStep
    \/ BlueskyStep

\* generate_and_post_bluesky, then process_video without force on the same job
DirectSpec == DirectInit /\ [][DirectNext]_vars

\* process_video beside an external actor that deletes objects
EnvNext == Next \/ EnvDelete

EnvSpec == Init /\ [][EnvNext]_vars

Idle == PStart(CHOOSE p \in Paths : TRUE, {})

PostInit == Idle /\ QInit /\ VInit /\ OInit

PostNext ==
    \/ \E blank \in BOOLEAN : GenerateBlueskyPost(blank)
    \/ GenerateStep
    \/ ValidateStep

\* one call of generate_bluesky_post
PostSpec == PostInit /\ [][PostNext]_vars

ValInit ==
    /\ Idle
    /\ QInit
    /\ vpc = "call"
    /\ vin \in ValidatorInputs
    /\ vout = NoVerdict
    /\ OInit

\* one call of _validate_bluesky_post on every input of the model
ValSpec == ValInit /\ [][ValidateBlueskyPost]_vars

BatchInit ==
    /\ Idle
    /\ QInit
    /\ VInit
    /\ playlist \in Playlists
    /\ bforce \in BOOLEAN
    /\ BIdle
    /\ SInit
    /\ MInit
    /\ XInit

BatchNext ==
    \/ ProcessPlaylist
    \/ PlaylistEntry
    \/ PlaylistCallEnds
    \/ PlaylistReturn

\* one call of process_playlist on every playlist of the model
BatchSpec == BatchInit /\ [][BatchNext]_vars

PublishInit ==
    /\ Idle /\ QInit /\ VInit /\ BInit /\ MInit /\ XInit
    /\ pubin \in PublishInputs
    /\ SIdle

PublishNext == Authenticate \/ Publish

\* one call of post_content_with_media on every input of the model
PublishSpec == PublishInit /\ [][PublishNext]_vars

StoreInit ==
    /\ Idle /\ QInit /\ VInit /\ BInit /\ SInit /\ XInit
    /\ stin \in StoreInputs
    /\ MIdle

\* one call of a MinIOService method on every input of the model
StoreSpec == StoreInit /\ [][MinioCall]_vars

\* an object another writer left under the key retrieve_data_with_date reads
StaleObjects(in) ==
    {[key |-> RetrieveName(DateFolder(in.category, in.date), in.filename),
      data |-> "old", content_type |-> "text/csv"]}

DateInit ==
    /\ Idle /\ QInit /\ VInit /\ BInit /\ SInit /\ MInit /\ KInit /\ GInit
    /\ din \in DateInputs
    /\ dstore \in {{}, StaleObjects(din)}
    /\ DIdle

DateNext == SaveDataWithDate \/ RetrieveDataWithDate

\* save_data_with_date followed by retrieve_data_with_date, same arguments
DateSpec == DateInit /\ [][DateNext]_vars

\* the bucket before the downloader ran: empty, or holding a video in the
\* layout process_playlist reads, or a video the downloader stored earlier
DownloadStores ==
    { {},
      {"downloads/a.mp4", "downloads/a.json"},
      {"downloads/a/a.mp4"} }

DownloadInit ==
    /\ \E S \in DownloadStores : PStart(PlaylistPath("a"), S)
    /\ QInit
    /\ VInit
    /\ OInit

DownloadNext ==
    \/ DownloadVideo
    \/ PlaylistCall
    \/ Download
    \/ WavStep
    \/ TxtStep
    \/ ThumbnailStep
    \/ AnalysisStep
    \/ LinkedinStep
    \/ BlueskyStep

\* the downloader, then process_playlist's calls of process_video
DownloadSpec == DownloadInit /\ [][DownloadNext]_vars

PollInit ==
    /\ Idle /\ QInit /\ VInit /\ BInit /\ SInit /\ MInit /\ DInit /\ GInit
    /\ KInit

PollNext == Poll \/ PollTimeout

\* one call of _poll_for_completion
PollSpec == PollInit /\ [][PollNext]_vars

\* ================================================================= claims
\* the call that just returned re-ran the job of the call before it
SameJobAgain == pc = "done" /\ prev.valid /\ prev.path = path

\* no collaborator failed during the call that just returned
NoFaultThisCall == faults = prev.faults

\* the stages the pipeline documents (main.py docstring, Process Flow)
PipelineStages == {"wav", "txt", "thumbnail", "analysis", "linkedin", "bluesky"}

\* C1: idempotence - a non-force call right after a non-force call of the same
\* job that returned true, with no collaborator failure and no other change of
\* the bucket, invokes no stage function and returns true.
C1_IdempotentRerun ==
    (SameJobAgain /\ prev.result /\ ~prev.force /\ ~force /\ NoFaultThisCall)
        => (execd = {} /\ result = TRUE)

\* a root-level job returned true, was called again and transcribed again
C1_Witness ==
    /\ SameJobAgain /\ prev.result /\ ~prev.force /\ ~force /\ NoFaultThisCall
    /\ Folder = ""
    /\ "txt" \in execd
    /\ PutName(Folder, Base, "txt") \in prev.puts

\* C2: no-op re-run - once a call returned true, a further non-force call of
\* the same job takes the short-circuit return: it stats objects only, with no
\* retrieval, no put and no stage function.
C2_ShortCircuitRerun ==
    (SameJobAgain /\ prev.result /\ ~force)
        => (exit = "short" /\ gets = {} /\ puts = {} /\ execd = {})

\* the call after a successful one went past the short-circuit and retrieved
C2_Witness ==
    /\ SameJobAgain /\ prev.result /\ ~force
    /\ exit = "success"
    /\ ~file_status["bluesky"]
    /\ gets # {}

\* C3: resumability - in a non-force call that follows a failed call of the
\* same job, no stage whose output the failed call persisted is invoked again.
C3_ResumeSkipsPersisted ==
    (pc # "idle" /\ prev.valid /\ prev.path = path /\ ~prev.result /\ ~force)
        => \A ft \in execd : PutName(Folder, Base, ft) \notin prev.puts

\* the transcript persisted by the failed run is produced again by the next
C3_Witness ==
    /\ SameJobAgain /\ ~prev.result /\ ~force
    /\ "txt" \in execd
    /\ PutName(Folder, Base, "txt") \in prev.puts
    /\ PutName(Folder, Base, "txt") \in store

\* C4: force bypass - a force call stats nothing for its snapshot, and when it
\* runs to its end it has invoked every stage of the pipeline, whatever the
\* bucket already held.
C4_ForceRunsEveryStage ==
    (pc = "done" /\ force /\ exit = "success")
        => (snapq = {} /\ PipelineStages \subseteq execd)

\* a force run over a complete job succeeded without the social-post stage
C4_Witness ==
    /\ pc = "done" /\ force /\ exit = "success"
    /\ snapq = {}
    /\ PipelineStages \ {"bluesky"} \subseteq execd
    /\ "bluesky" \notin execd
    /\ prev.valid /\ prev.path = path /\ prev.exit = "short"

\* C5: abort on stage failure - when a stage fails (its production step or the
\* put of its output), the call returns false and no later stage of the run
\* order is invoked or persisted in that call.
C5_AbortOnStageFailure ==
    failedAt # "none"
        => /\ pc = "done"
           /\ result = FALSE
           /\ execd \cap Later(failedAt) = {}
           /\ \A ft \in Later(failedAt) : PutName(Folder, Base, ft) \notin puts

C5_Witness ==
    /\ pc = "done"
    /\ failedAt = "thumbnail"
    /\ exit = "stage"
    /\ {"wav", "txt"} \subseteq execd
    /\ PutName(Folder, Base, "txt") \in puts

\* C6: a call returns true only if every stage of the job not satisfied in the
\* snapshot was invoked and its output persisted during the call.
C6_TrueOnlyIfAllDone ==
    (pc = "done" /\ result = TRUE)
        => \A ft \in PipelineStages \cup {"small_video"} :
              \/ file_status[ft]
              \/ (ft \in execd /\ PutName(Folder, Base, ft) \in puts)

\* true was returned although neither social post nor short clip exists
C6_Witness ==
    /\ pc = "done" /\ result = TRUE
    /\ ~file_status["bluesky"] /\ "bluesky" \notin execd
    /\ ~file_status["small_video"] /\ "small_video" \notin execd
    /\ ~object_exists(Folder, files_to_check(Base)["bluesky"])

ThumbnailFeasible ==
    \/ object_exists(Folder, files_to_check(Base)["json"])
    \/ object_exists(Folder, files_to_check(Base)["thumbnail"])

ExpectedForced ==
    IF lastCand.len > 290
    THEN [id |-> lastCand.id, len |-> 290, head |-> lastCand.head, tail |-> 0,
          cut |-> TRUE]
    ELSE lastCand

NoVerdictPassed == \A i \in DOMAIN verdicts : ~verdicts[i]

Terminated == ppc \in {"returned", "raised"}

\* C8: validation exhaustion - a call that entered the loop, in which no
\* validation passed and no collaborator call raised, ends after exactly 5
\* generate calls and 5 validate calls by returning the last candidate, cut to
\* 287 characters and "..." when it is over 290; no call makes more than 5.
C8_Exhaustion ==
    /\ genCalls <= 5 /\ valCalls <= 5
    /\ (Terminated /\ genCalls >= 1 /\ NoVerdictPassed /\ ~collabRaised)
          => /\ ppc = "returned"
             /\ genCalls = 5
             /\ valCalls = 5
             /\ ret = ExpectedForced

C8_Witness ==
    /\ ppc = "returned"
    /\ genCalls = 5
    /\ NoVerdictPassed
    /\ ~collabRaised
    /\ lastCand.len > 290
    /\ ret.cut

\* C9: validation convergence - when the first validation passes, the call
\* returns the candidate of iteration 1 unchanged after one generate call and
\* one validate call.
C9_Convergence ==
    (Terminated /\ Len(verdicts) >= 1 /\ verdicts[1])
        => /\ ppc = "returned"
           /\ ret = cand1
           /\ genCalls = 1
           /\ valCalls = 1

C9_Witness ==
    /\ ppc = "returned"
    /\ verdicts = <<TRUE>>
    /\ cand1.len > 290
    /\ ret = cand1

\* the answer gives a number for the key
GivesNumber(answer, key) ==
    \E i \in 1..Len(answer) :
        answer[i].key = key /\ answer[i].val \in {"280", "3"}

\* the validator raised, or its answer lacks one of the two counts
FallbackCase ==
    \/ vin.raises
    \/ ~GivesNumber(vin.answer, KeyC)
    \/ ~GivesNumber(vin.answer, KeyH)

AnswerSaysYes ==
    \E i \in 1..Len(vin.answer) :
        vin.answer[i].key = KeyM /\ vin.answer[i].val = "YES"

\* C10: manual fallback - when the validator raises or its answer is empty or
\* lacks a parseable CHARACTER_COUNT or HASHTAG_COUNT, the verdict is: at most
\* 290 characters and at least 2 '#', whatever MEETS_REQUIREMENTS says.
C10_ManualFallback ==
    (vpc = "done" /\ FallbackCase)
        => vout.meets = (vin.text.len <= 290 /\ vin.text.head + vin.text.tail >= 2)

C10_Witness ==
    /\ vpc = "done"
    /\ ~vin.raises
    /\ AnswerSaysYes
    /\ GivesNumber(vin.answer, KeyC)
    /\ ~GivesNumber(vin.answer, KeyH)
    /\ vin.text.len > 290
    /\ ~vout.meets

\* C11: validation-loop error handling - a failure of the generator in one
\* iteration is caught in that iteration and the loop goes on; the call raises
\* on generator failures only when all 5 iterations failed.
C11_PerIterationCatch ==
    (ppc = "raised" /\ raisedBy = "generate") => genCalls = 5

\* the generator failed in iteration 2, after iteration 1 gave a candidate, and
\* the call raised at once
C11_Witness ==
    /\ ppc = "raised"
    /\ raisedBy = "generate"
    /\ iteration = 2
    /\ genCalls = 2
    /\ cand1 # NoText
    /\ verdicts = <<FALSE>>

\* the calls of process_video made for entry i of the list as listed
CallsFor(i) ==
    {k \in DOMAIN bcalls : bcalls[k].entry = Len(playlist.videos) + 1 - i}

\* C12: batch isolation - process_playlist calls process_video exactly once
\* for every entry that has an id, whatever earlier entries did, and no
\* exception raised while an entry is processed leaves process_playlist.
C12_BatchIsolation ==
    /\ bpc # "raised"
    /\ bpc = "returned" =>
          \A i \in DOMAIN playlist.videos :
              Cardinality(CallsFor(i)) = IF playlist.videos[i].id = "None" THEN 0
                                         ELSE 1

\* process_playlist raised at an entry and never reached an earlier-listed
\* entry that has an id
C12_Witness ==
    /\ bpc = "raised"
    /\ Len(playlist.videos) = 3
    /\ playlist.videos[2].title = "null"
    /\ playlist.videos[1].id # "None"
    /\ CallsFor(1) = {}
    /\ bdone = <<"true">>

\* every entry has an id and its process_video call returned true
EveryEntrySucceeded ==
    /\ Len(bdone) = Len(GetVideos(playlist))
    /\ \A k \in DOMAIN bdone : bdone[k] = "true"

\* C13: batch aggregate - when process_playlist returns, it returns true iff
\* every entry succeeded (false when a process_video call returned false or
\* raised, or an entry has no id), success_count + error_count is the number
\* of entries, and an empty playlist gives true.
C13_BatchAggregate ==
    bpc = "returned" =>
        /\ bret = EveryEntrySucceeded
        /\ success_count + error_count = Len(GetVideos(playlist))
        /\ GetVideos(playlist) = <<>> => bret = TRUE

C13_Witness ==
    /\ bpc = "returned"
    /\ bret = FALSE
    /\ success_count = 2
    /\ error_count = 1
    /\ bdone = <<"true", "raise", "true">>

\* C14: batch ordering - the process_video calls are made one at a time, for
\* the entries in the reverse of the listed order; a call begins only after
\* the call before it has returned or raised.
C14_BatchOrdering ==
    /\ inflight <= 1
    /\ Len(bcalls) = Len(bdone) + inflight
    /\ \A k \in DOMAIN bcalls :
          LET i == Len(playlist.videos) + 1 - bcalls[k].entry IN
          /\ i \in DOMAIN playlist.videos
          /\ bcalls[k].path = "downloads/" \o playlist.videos[i].id \o ".mp4"
          /\ \A j \in DOMAIN bcalls : j < k => bcalls[j].entry < bcalls[k].entry
          /\ \A i2 \in DOMAIN playlist.videos :
                (i2 > i /\ playlist.videos[i2].id # "None") => CallsFor(i2) # {}

C14_Witness ==
    /\ bpc = "returned"
    /\ Len(playlist.videos) = 3
    /\ playlist.videos[1].id = "x"
    /\ playlist.videos[2].id = "None"
    /\ playlist.videos[3].id = "y"
    /\ Len(bcalls) = 2
    /\ bcalls[1].path = "downloads/y.mp4"
    /\ bcalls[2].path = "downloads/x.mp4"
    /\ bdone[1] = "false"

\* the path of the current call ends in .mp4, in either letter case
EndsInMp4 == Mp4.ext \in {".mp4", ".MP4"}

NothingDone == execd = {} /\ puts = {} /\ gets = {} /\ ~tmpMade /\ ~tmp

\* C15: precondition failures - a call whose path does not end in .mp4 returns
\* false with no stat and no write of the store; a call that is not
\* short-circuited and whose source video is absent returns false with no
\* stage function invoked, no temporary directory and no write of the store.
C15_PreconditionFailures ==
    /\ (pc # "idle" /\ ~EndsInMp4)
          => (pc = "done" /\ result = FALSE /\ snapq = {} /\ queried = {}
              /\ NothingDone)
    /\ (pc # "idle" /\ EndsInMp4 /\ exit # "short"
            /\ (StripSlash(Folder) \o "/" \o Mp4.base \o Mp4.ext) \notin store)
          => (pc = "done" /\ result = FALSE /\ NothingDone)

\* a call for a video that is not in the bucket, after a call with a bad path
C15_Witness ==
    /\ pc = "done"
    /\ exit = "nomp4"
    /\ result = FALSE
    /\ force
    /\ store # {}
    /\ prev.valid
    /\ prev.exit = "ext"

\* C16: working-area cleanup - when a call that created the temporary
\* directory has returned (success, stage failure, failed retrieval or an
\* exception in a stage), the directory and its files are gone.
C16_TempDirCleanup ==
    (pc = "done" /\ tmpMade) => (~tmp /\ work = {})

\* the transcription raised after the video and the audio were in the directory
C16_Witness ==
    /\ pc = "done"
    /\ tmpMade
    /\ exit = "except"
    /\ failedAt = "txt"
    /\ "wav" \in execd
    /\ ~tmp
    /\ work = {}

\* what the failed call before this one persisted is satisfied in the snapshot
SnapshotSeesPersisted ==
    (pc # "idle" /\ prev.valid /\ prev.path = path /\ ~prev.result /\ ~force
        /\ EndsInMp4)
        => \A ft \in FileTypes :
              PutName(Folder, Base, ft) \in prev.puts => file_status[ft]

\* C17: no rollback - every object in the bucket when a call began is still
\* there during and after it, and what a failed call persisted is satisfied in
\* the snapshot of the next non-force call of the same job.
C17_NoRollback ==
    /\ pc # "idle" => store0 \subseteq store
    /\ SnapshotSeesPersisted

\* the transcript of the failed call is in the bucket, and the snapshot of the
\* next call says it is not
C17_Witness ==
    /\ pc = "done"
    /\ prev.valid /\ prev.path = path /\ ~prev.result /\ ~force
    /\ PutName(Folder, Base, "txt") \in prev.puts
    /\ PutName(Folder, Base, "txt") \in store0
    /\ ~file_status["txt"]
    /\ file_status["wav"]

\* the method the priority order asks for
PriorityMethod ==
    IF pubin.use_youtube_facets /\ pubin.youtube_url = "given"
    THEN "post_with_youtube_facet"
    ELSE IF pubin.video_path = "given" /\ pubin.video_on_disk
    THEN "post_with_video"
    ELSE IF pubin.thumbnail_path = "given" /\ pubin.thumbnail_on_disk
    THEN "post_with_image"
    ELSE "post_text_only"

\* C18: publish priority - after a successful authentication exactly one
\* publishing method is invoked, the first that applies of facet post, video
\* post, image post, text-only, and its result is returned with no fallback;
\* after a failed authentication no method is invoked and false is returned.
C18_PublishPriority ==
    spc = "done" =>
        IF pubin.auth = "ok"
        THEN /\ invoked = <<PriorityMethod>>
             /\ sret = (pubin.outcome = "true")
        ELSE /\ invoked = <<>>
             /\ sret = FALSE

\* the facet post failed although a video and a thumbnail were at hand
C18_Witness ==
    /\ spc = "done"
    /\ pubin.auth = "ok"
    /\ pubin.use_youtube_facets
    /\ pubin.youtube_url = "given"
    /\ pubin.video_path = "given" /\ pubin.video_on_disk
    /\ pubin.thumbnail_path = "given" /\ pubin.thumbnail_on_disk
    /\ pubin.outcome = "false"
    /\ invoked = <<"post_with_youtube_facet">>
    /\ sret = FALSE

\* C19: store error contract - object_exists, save and save_file never raise;
\* when the client call fails with an S3 error or any other exception they
\* return false.
C19_StoreNeverRaises ==
    mpc = "done" =>
        /\ mout \in {"True", "False"}
        /\ stin.client # "ok" => mout # "True"
        /\ (stin.method = "object_exists" /\ ~stin.present) => mout = "False"

\* save_file met an exception that is not an S3 error and returned false
C19_Witness ==
    /\ mpc = "done"
    /\ stin.method = "save_file"
    /\ stin.local_file
    /\ stin.client = "Exception"
    /\ mout = "False"
    /\ mput # "none"

\* C20: social post as final stage - a call that returns true after its stages
\* ran, with the social post not satisfied in its snapshot (always so under
\* force), has run the post stage last, persisted {base}-bluesky.txt and
\* published the post.
C20_SocialPostFinalStage ==
    (pc = "done" /\ result = TRUE /\ exit = "success" /\ ~file_status["bluesky"])
        => /\ "bluesky" \in execd
           /\ SaveName(Folder, Base \o "-bluesky.txt") \in puts
           /\ Base \in posted

\* every earlier stage ran and succeeded, true was returned, and no post was
\* generated, persisted or published
C20_Witness ==
    /\ pc = "done" /\ result = TRUE /\ exit = "success"
    /\ ~file_status["bluesky"]
    /\ {"wav", "txt", "thumbnail", "analysis", "linkedin"} \subseteq execd
    /\ "bluesky" \notin execd
    /\ posted = {}
    /\ \A f \in InitFolders : SaveName(f, Base \o "-bluesky.txt") \notin store

\* C21: date-organised round trip - after save_data_with_date returned true,
\* retrieve_data_with_date with the same date, category and filename returns
\* the saved data.
C21_DateRoundTrip ==
    (dpc = "retrieved" /\ dsaved) => dret = din.data

\* the save returned true, the object sits under {category}/{date} and the
\* retrieval of {category}/{date}/{filename} returned None
C21_Witness ==
    /\ dpc = "retrieved"
    /\ dsaved
    /\ dret = "None"
    /\ \E o \in dstore : o.key = "stocks/2024-01-05" /\ o.content_type = "a.csv"

\* the snapshot a call takes of the bucket as it was when the call began
SnapshotAtStart ==
    IF force \/ ~EndsInMp4
    THEN [ft \in FileTypes |-> FALSE]
    ELSE [ft \in FileTypes |->
             Folder \o "/" \o files_to_check(Base)[ft] \in store0]

\* the stages process_video has a live step for
LiveStages == {"wav", "txt", "thumbnail", "analysis", "linkedin"}

StageArtifacts == FileTypes \ {"json"}

DeletedInThisRun == [call |-> calls, running |-> TRUE] \in envAt

StageInputs(s) ==
    CASE s = "wav" -> {Base \o Mp4.ext}
      [] s = "txt" -> {Base \o ".wav"}
      [] s \in {"analysis", "linkedin", "bluesky"} -> {Base \o ".txt"}
      [] OTHER -> {}

\* C23: dependency satisfaction - whenever process_video invokes a stage's
\* production step, the stage's inputs are in the working area: the source
\* video for audio, the audio for the transcript, the transcript for the
\* analysis, the LinkedIn post and the social post.
C23_DependencySatisfaction ==
    [][\A s \in PipelineStages :
          (s \in execd' /\ s \notin execd) => StageInputs(s) \subseteq work]_vars

\* a run that skipped the audio and transcript stages, fetched the transcript
\* and invoked the analysis on it
C23_Witness ==
    /\ "analysis" \in execd
    /\ file_status["wav"] /\ file_status["txt"] /\ ~file_status["analysis"]
    /\ RetrieveToFileName(Folder, Base \o ".txt") \in gets
    /\ "a-analysis.txt" \in work

\* the validation of iteration 5 failed and the call returned
ForceAccepted ==
    ppc = "returned" /\ Len(verdicts) = 5 /\ ~verdicts[5]

\* C24: forceAccept truncation - when the validation of iteration 5 fails,
\* generate_bluesky_post returns the last candidate unchanged if it has at
\* most 290 characters, even with fewer than 2 hashtags, and otherwise its
\* first 287 characters followed by "...", 290 characters in all.
C24_ForceAcceptTruncation ==
    ForceAccepted =>
        IF lastCand.len <= 290
        THEN ret = lastCand
        ELSE /\ ret.len = 287 + 3
             /\ ret.cut
             /\ ret.id = lastCand.id
             /\ ret.head = lastCand.head
             /\ ret.tail = 0

\* a last candidate of exactly 290 characters with fewer than 2 hashtags is
\* returned as it is
C24_Witness ==
    /\ ForceAccepted
    /\ lastCand.len = 290
    /\ lastCand.head + lastCand.tail < 2
    /\ ret = lastCand
    /\ ~ret.cut

\* the keys check_files_exist stats for the job
SnapshotKeys == {Folder \o "/" \o files_to_check(Base)[ft] : ft \in FileTypes}

\* C26: key consistency - for every folder value, the empty folder of a
\* root-level path included, every key under which process_video persists an
\* artifact is a key check_files_exist stats for the job.
C26_KeyConsistency ==
    pc # "idle" => puts \subseteq SnapshotKeys

\* a root-level job persisted its transcript under the bare name, while the
\* snapshot asks for the name with a leading separator
C26_Witness ==
    /\ Folder = ""
    /\ "txt" \in execd
    /\ "a.txt" \in puts
    /\ "a.txt" \notin SnapshotKeys
    /\ "/a.txt" \in SnapshotKeys
    /\ "/a.txt" \notin store

BlueskyKey == Folder \o "/" \o Base \o "-bluesky.txt"

\* the call before this one was generate_and_post_bluesky; it persisted the
\* post and returned false because the publication failed
PublicationFailedBefore ==
    /\ prev.valid /\ prev.path = path
    /\ "bluesky" \in prev.execd
    /\ prev.puts # {}
    /\ ~prev.result
    /\ posted = {}

\* C25: persist-before-publish - generate_and_post_bluesky publishes only a
\* post it has persisted; when the publication fails it returns false with the
\* post persisted, and the snapshot of the next non-force call has the
\* social-post stage as satisfied.
C25_PersistBeforePublish ==
    /\ (pc = "done" /\ "bluesky" \in execd /\ posted # {}) => puts # {}
    /\ (pc = "done" /\ "bluesky" \in execd /\ puts = {}) => (posted = {} /\ ~result)
    /\ (pc # "direct" /\ PublicationFailedBefore /\ ~force)
          => file_status["bluesky"]

\* a root-level job: the publication failed after the post was persisted as
\* a-bluesky.txt, and the next snapshot does not have the stage as satisfied
C25_Witness ==
    /\ PublicationFailedBefore
    /\ ~force
    /\ Folder = ""
    /\ "a-bluesky.txt" \in store
    /\ BlueskyKey \notin store
    /\ ~file_status["bluesky"]

MetadataMissing ==
    /\ Folder \o "/" \o Base \o ".json" \notin store0
    /\ Folder \o "/" \o Base \o ".webp" \notin store0

SourcePresent == EndsInMp4 /\ Folder \o "/" \o Base \o Mp4.ext \in store0

\* C28: metadata precondition - a call that begins with the metadata JSON
\* absent and the thumbnail not persisted, with or without force, never
\* returns true and never executes the analysis or LinkedIn stage; it fails at
\* the thumbnail stage at the latest, and when the source video is there and no
\* collaborator fails it fails exactly there, after audio and transcript were
\* produced or found.
C28_MetadataBlocks ==
    (pc \notin {"idle", "direct"} /\ MetadataMissing) =>
        /\ "analysis" \notin execd
        /\ "linkedin" \notin execd
        /\ pc \notin {"analysis", "linkedin", "bluesky"}
        /\ ~(pc = "done" /\ result)
        /\ failedAt \in {"none", "wav", "txt", "thumbnail"}
        /\ (pc = "done" /\ SourcePresent /\ NoFaultThisCall)
              => /\ failedAt = "thumbnail"
                 /\ exit = "stage"
                 /\ \A s \in {"wav", "txt"} : s \in execd \/ file_status[s]

\* the third call for a job without metadata fails at the thumbnail stage as
\* the two before it did
C28_Witness ==
    /\ pc = "done" /\ calls = 3
    /\ MetadataMissing
    /\ SourcePresent
    /\ prev.valid /\ prev.path = path /\ ~prev.result /\ "thumbnail" \in prev.execd
    /\ failedAt = "thumbnail"
    /\ "thumbnail" \in execd
    /\ ~result

\* C29: polling stops on failure - once a job-status response reported state
\* "failed", _poll_for_completion has raised the processing-failed error and
\* made no further request.
C29_PollingStopsOnFailed ==
    sawFailed => (kpc = "raised" /\ kout = "failed" /\ pollsAfterFailed = 0)

\* the job was reported failed, it was polled again and again, and the call
\* ended with the time-out error
C29_Witness ==
    /\ sawFailed
    /\ pollsAfterFailed >= 2
    /\ kpc = "raised"
    /\ kout = "timeout"
    /\ clock >= 300

\* C30: downloader/pipeline key agreement - a video and its metadata stored by
\* download_video with default settings are in the bucket under the keys
\* process_playlist uses for that id, downloads/{id}.mp4 and
\* downloads/{id}.json, so process_video finds the source video.
C30_DownloaderKeyAgreement ==
    /\ \A id \in downloaded :
          /\ "downloads/" \o id \o ".mp4" \in store
          /\ "downloads/" \o id \o ".json" \in store
    /\ (pc = "done" /\ Folder = "downloads" /\ Base \in downloaded)
          => exit # "nomp4"

\* video b was downloaded and uploaded as downloads/b/b.mp4 with its metadata;
\* process_video("downloads/b.mp4") found no source video
C30_Witness ==
    /\ "b" \in downloaded
    /\ "downloads/b/b.mp4" \in store
    /\ "downloads/b/b.json" \in store
    /\ "downloads/b.mp4" \notin store
    /\ pc = "done" /\ Folder = "downloads" /\ Base = "b"
    /\ exit = "nomp4"
    /\ ~result

====
